---- MODULE Spec2Model ----
(***************************************************************************)
(* Model of the LLM response analyser: the sampler (llm_utils.run_query,   *)
(* main.get_responses), the option extractor (llm_utils.identify_options), *)
(* the share aggregator (analysis_tools.calculate_options_shares), the run *)
(* orchestrator (main.py) with its JSON artifacts on disk, and the         *)
(* Streamlit form (app.py).                                                *)
(*                                                                         *)
(* A Python str is a sequence of tokens, so that concatenation (\o),       *)
(* str.replace and str.strip are computed and not assumed.  A model id is  *)
(* a sequence of single characters.  Python's None for an optional         *)
(* argument is the record Absent; a supplied value v is Given(v).          *)
(***************************************************************************)
EXTENDS Integers, Sequences, FiniteSets, TLC

VARIABLES
    disk,        \* data/<unique_id>/<file>.json : path -> artifact
    dirs,        \* the data/<unique_id> directories that exist
    last,        \* the most recent orchestrator call and its outcome
    got,         \* (unique_id, model) -> what get_responses last returned
    inMemory,    \* paths last written by a call given its input in memory
    calls,       \* number of orchestrator calls made so far
    extractor,   \* behaviour of the extraction model in this run
    app,         \* the Streamlit form: widgets, session state, page
    xpc,         \* extractor/aggregator pipeline: position
    xResponses,  \*   the batch handed to identify_options
    xReply,      \*   what the extraction completion call returns
    xMapping,    \*   identify_options' result
    xShares      \*   calculate_options_shares' result

vars == <<disk, dirs, last, got, inMemory, calls, extractor, app,
          xpc, xResponses, xReply, xMapping, xShares>>
orchVars == <<disk, dirs, last, got, inMemory, calls, extractor>>
pipeVars == <<xpc, xResponses, xReply, xMapping, xShares>>

---------------------------------------------------------------------------
(* Bounds of the model *)

MaxRuns == 2        \* largest `runs` passed to get_responses
MaxCalls == 3       \* orchestrator calls explored per behaviour
MaxLen == 2         \* longest batch handed to identify_options
MaxRecs == 2        \* most records in one extraction reply

(* Program constants *)

max_tries == 5      \* backoff.on_exception(max_tries=5)
max_time == 30      \* backoff.on_exception(max_time=30)

---------------------------------------------------------------------------
(* Python values *)

Absent == [given |-> FALSE, val |-> <<>>]
Given(v) == [given |-> TRUE, val |-> v]

Str(token) == <<token>>

\* f"Error: {str(e)}"
ErrorString(msg) == <<"Error: ">> \o msg

\* seq[idx] with Python's negative indices; IndexError outside -n .. n-1
IndexInRange(seq, idx) == idx >= -Len(seq) /\ idx < Len(seq)
PyIndex(seq, idx) == IF idx >= 0 THEN seq[idx + 1] ELSE seq[Len(seq) + idx + 1]

\* str.replace(old, new) for a one-character old
Replace(s, old, new) == [i \in 1..Len(s) |-> IF s[i] = old THEN new ELSE s[i]]

RECURSIVE GCD(_, _)
GCD(a, b) == IF b = 0 THEN a ELSE GCD(b, a % b)

\* count / total as an exact fraction in lowest terms (total > 0)
Divide(count, total) ==
    LET g == GCD(count, total)
    IN  [num |-> count \div g, den |-> total \div g]

One == [num |-> 1, den |-> 1]

---------------------------------------------------------------------------
(* Share aggregator: analysis_tools.calculate_options_shares *)

\* option_counts[entity] += 1 on a defaultdict(int)
Increment(counts, entity) ==
    [e \in DOMAIN counts \cup {entity} |->
        IF e = entity
        THEN (IF entity \in DOMAIN counts THEN counts[entity] + 1 ELSE 1)
        ELSE counts[e]]

RECURSIVE CountEntities(_, _, _)
CountEntities(entities, j, counts) ==
    IF j > Len(entities) THEN counts
    ELSE CountEntities(entities, j + 1, Increment(counts, entities[j]))

RECURSIVE CountMappings(_, _, _)
CountMappings(mappings, i, counts) ==
    IF i > Len(mappings) THEN counts
    ELSE CountMappings(mappings, i + 1, CountEntities(mappings[i][2], 1, counts))

option_counts(mappings) == CountMappings(mappings, 1, <<>>)

calculate_options_shares(mappings) ==
    LET counts == option_counts(mappings)
        total_responses == Len(mappings)
    IN  [option \in DOMAIN counts |-> Divide(counts[option], total_responses)]

---------------------------------------------------------------------------
(* Option extractor: llm_utils.identify_options *)

\* One record of the function-call payload.  has_entities = FALSE is a
\* record without the "normalized_entities" key.
Record(idx, has, ents) ==
    [response_index |-> idx, has_entities |-> has, normalized_entities |-> ents]

FailedReply(kind) == [kind |-> kind, records |-> <<>>]
OkReply(records) == [kind |-> "ok", records |-> records]

\* str(e) of the exception each failure raises
ExceptionText(kind) ==
    CASE kind = "provider_error" -> Str("provider error")
      [] kind = "bad_json"       -> Str("Expecting value")
      [] kind = "no_mappings"    -> Str("'mappings'")
      [] kind = "no_entities"    -> Str("'normalized_entities'")
      [] kind = "index"          -> Str("list index out of range")

\* the body of the for loop: result.append((responses[response_idx], entities))
RECURSIVE BuildResult(_, _, _, _)
BuildResult(responses, records, i, result) ==
    IF i > Len(records) THEN [raised |-> FALSE, kind |-> "none", result |-> result]
    ELSE LET mapping == records[i]
             response_idx == mapping.response_index
         IN  IF ~mapping.has_entities
             THEN [raised |-> TRUE, kind |-> "no_entities", result |-> result]
             ELSE IF ~IndexInRange(responses, response_idx)
             THEN [raised |-> TRUE, kind |-> "index", result |-> result]
             ELSE BuildResult(responses, records, i + 1,
                      Append(result, <<PyIndex(responses, response_idx),
                                       mapping.normalized_entities>>))

\* the try block: completion(...), json.loads(...)["mappings"], the loop
TryExtract(responses, reply) ==
    IF reply.kind # "ok"
    THEN [raised |-> TRUE, kind |-> reply.kind, result |-> <<>>]
    ELSE BuildResult(responses, reply.records, 1, <<>>)

\* Variant of Fallback: the fallback pairs each response with no label
FallbackUnlabelled(responses, msg) ==
    [i \in 1..Len(responses) |-> <<responses[i], <<>> >>]

\* except Exception as e: every response gets the one error label
Fallback(responses, msg) ==
    [i \in 1..Len(responses) |-> <<responses[i], <<ErrorString(msg)>> >>]

identify_options(responses, reply) ==
    LET t == TryExtract(responses, reply)
    IN  IF t.raised THEN Fallback(responses, ExceptionText(t.kind)) ELSE t.result

---------------------------------------------------------------------------
(* The extractor and the aggregator on their own: identify_options on any  *)
(* batch and any reply of the extraction model, then                       *)
(* calculate_options_shares on the mapping it returned.                    *)

Texts == {Str("r1"), Str("r2")}
LabelA == Str("A")
LabelB == Str("B")
EntityLists == {<<>>, <<LabelA>>, <<LabelA, LabelA>>, <<LabelA, LabelB>>}

SeqsUpTo(S, n) == UNION {[1..k -> S] : k \in 0..n}

Batches == SeqsUpTo(Texts, MaxLen)

\* response_index values: a negative one, the valid ones, one past the end
Indices == (-1)..MaxLen

Records ==
    {Record(idx, TRUE, ents) : idx \in Indices, ents \in EntityLists}
    \cup {Record(idx, FALSE, <<>>) : idx \in Indices}

Replies ==
    {FailedReply(kind) : kind \in {"provider_error", "bad_json", "no_mappings"}}
    \cup {OkReply(records) : records \in SeqsUpTo(Records, MaxRecs)}

PipeIdle ==
    /\ xpc = "idle"
    /\ xResponses = <<>>
    /\ xReply = FailedReply("provider_error")
    /\ xMapping = <<>>
    /\ xShares = <<>>

PipeInit ==
    /\ xpc = "start"
    /\ xResponses \in Batches
    /\ xReply \in Replies
    /\ xMapping = <<>>
    /\ xShares = <<>>

Identify ==
    /\ xpc = "start"
    /\ xMapping' = identify_options(xResponses, xReply)
    /\ xpc' = "identified"
    /\ UNCHANGED <<xResponses, xReply, xShares>>

Aggregate ==
    /\ xpc = "identified"
    /\ xShares' = calculate_options_shares(xMapping)
    /\ xpc' = "shared"
    /\ UNCHANGED <<xResponses, xReply, xMapping>>

---------------------------------------------------------------------------
(* Sampler: llm_utils.run_query *)

\* What the provider does for one completion call: the first `failures`
\* attempts raise, the next one returns `content`; an attempt and the wait
\* after it take `seconds`.
Outcome(failures, seconds, content, error) ==
    [failures |-> failures, seconds |-> seconds, content |-> content,
     error |-> error]

\* @backoff.on_exception(expo, Exception, max_tries=5, max_time=30): the
\* call is retried while it raises, until max_tries attempts were made or
\* max_time has elapsed
RECURSIVE Attempt(_, _)
Attempt(outcome, tries) ==
    IF tries > outcome.failures
    THEN [raised |-> FALSE, content |-> outcome.content]
    ELSE IF tries >= max_tries \/ tries * outcome.seconds >= max_time
    THEN [raised |-> TRUE, content |-> outcome.error]
    ELSE Attempt(outcome, tries + 1)

make_completion_call(outcome) == Attempt(outcome, 1)

\* for _ in range(runs): try ... results.append(result)
\*                       except Exception as e: results.append(f"Error: ...")
RECURSIVE RunQueryLoop(_, _, _)
RunQueryLoop(outcomes, i, results) ==
    IF i > Len(outcomes) THEN results
    ELSE LET response == make_completion_call(outcomes[i])
         IN  RunQueryLoop(outcomes, i + 1,
                 Append(results, IF response.raised
                                 THEN ErrorString(response.content)
                                 ELSE response.content))

\* Variant of run_query: a failed call leaves no entry behind
run_query_abort(outcomes) ==
    SelectSeq(RunQueryLoop(outcomes, 1, <<>>), LAMBDA r : Head(r) # "Error: ")

\* run_query(model, query, system_prompt, runs) with runs = Len(outcomes)
run_query(outcomes) == RunQueryLoop(outcomes, 1, <<>>)

---------------------------------------------------------------------------
(* Run orchestrator: main.py *)

gpt_3_5_turbo == <<"g","p","t","-","3",".","5","-","t","u","r","b","o">>
gpt_3_5_dashed == <<"g","p","t","-","3","-","5","-","t","u","r","b","o">>
gpt_4_mini == <<"g","p","t","-","4","-","m","i","n","i">>
google_gemini == <<"g","o","o","g","l","e","/","g","e","m","i","n","i">>

\* model.replace('/', '-').replace('.', '-'); f"{base_name}_{model_name}.json"
get_model_filename(base_name, model) ==
    LET model_name == Replace(Replace(model, "/", "-"), ".", "-")
    IN  Str(base_name) \o Str("_") \o model_name \o Str(".json")

\* Path('data') / unique_id / file
Path(unique_id, file) == <<unique_id, file>>

\* open(path, 'w') ... json.dump(artifact, f)
WriteFile(d, path, artifact) ==
    [p \in DOMAIN d \cup {path} |-> IF p = path THEN artifact ELSE d[p]]

\* Variant of LoadJson: a missing artifact reads as an empty one
LoadJsonOrEmpty(d, path) ==
    IF path \in DOMAIN d
    THEN [found |-> TRUE, data |-> d[path]]
    ELSE [found |-> TRUE,
          data |-> [model |-> <<>>, query |-> <<>>, responses |-> <<>>,
                    options |-> <<>>, mappings |-> <<>>]]

\* with open(path, 'r') as f: data = json.load(f)
\* (FileNotFoundError when the artifact was never written)
LoadJson(d, path) ==
    IF path \in DOMAIN d
    THEN [found |-> TRUE, data |-> d[path]]
    ELSE [found |-> FALSE, data |-> <<>>]

Returned(d, ds, ret, progress, wrote) ==
    [disk |-> d, dirs |-> ds, raised |-> FALSE, err |-> "none",
     ret |-> ret, progress |-> progress, wrote |-> wrote]
Raised(d, ds, err) ==
    [disk |-> d, dirs |-> ds, raised |-> TRUE, err |-> err,
     ret |-> <<>>, progress |-> <<>>, wrote |-> {}]

\* for i in range(runs): result = run_query(model, query, system_prompt)
\*                       results.extend(result)
\* over the calls lo..hi, in call order (halving the range keeps the
\* evaluation shallow for runs = 100)
RECURSIVE ExtendResults(_, _, _)
ExtendResults(outcomes, lo, hi) ==
    IF lo > hi THEN <<>>
    ELSE IF lo = hi THEN run_query(<<outcomes[lo]>>)
    ELSE LET mid == (lo + hi) \div 2
         IN  ExtendResults(outcomes, lo, mid) \o ExtendResults(outcomes, mid + 1, hi)

\* the loop of get_responses with its progress_callback(i + 1, runs)
GetResponsesLoop(runs, outcomes) ==
    [results |-> ExtendResults(outcomes, 1, runs),
     progress |-> [i \in 1..runs |-> <<i, runs>>]]

\* Variant of ResponsesArtifact: only the first response is persisted
ResponsesArtifactFirstOnly(model, query, results) ==
    [model |-> model, query |-> query,
     responses |-> IF results = <<>> THEN <<>> ELSE <<results[1]>>]

\* what json.dump writes to responses_<model>.json
ResponsesArtifact(model, query, results) ==
    [model |-> model, query |-> query, responses |-> results]

get_responses(d, ds, unique_id, model, query, runs, outcomes) ==
    LET loop == GetResponsesLoop(runs, outcomes)
        responses_file == Path(unique_id, get_model_filename("responses", model))
    IN  Returned(WriteFile(d, responses_file,
                           ResponsesArtifact(model, query, loop.results)),
                 ds \cup {unique_id}, loop.results, loop.progress,
                 {responses_file})

\* f"Question: {question}\n\n{combined_text}" if question else combined_text
Context(responses, question) ==
    [question |-> IF question # <<>> THEN Given(question) ELSE Absent,
     lines |-> [i \in 1..Len(responses) |-> <<i - 1, responses[i]>>]]

LabelAmbiguous == Str("Ambiguous")
LabelOf(text) ==
    IF text = Str("r1") THEN LabelA
    ELSE IF text = Str("r2") THEN LabelB
    ELSE LabelAmbiguous

\* completion(model="gpt-4", ..., function_call=...): the extraction model
\* is a function of the prompt it is sent; `behaviour` picks the function
Completion(behaviour, context) ==
    LET n == Len(context.lines)
        rec(line) == Record(line[1], TRUE, <<LabelOf(line[2])>>)
    IN  CASE behaviour = "in_order" ->
               OkReply([i \in 1..n |-> rec(context.lines[i])])
          [] behaviour = "reversed" ->
               OkReply([i \in 1..n |-> rec(context.lines[n + 1 - i])])
          [] behaviour = "provider_error" ->
               FailedReply("provider_error")

Extractors == {"in_order", "reversed", "provider_error"}

\* Python's order on the strings that occur as labels
TokenOrder == <<"'mappings'", "'normalized_entities'", "A", "Ambiguous", "B",
                "Error: ", "Expecting value", "list index out of range",
                "provider error">>
TokenRank(t) == CHOOSE i \in 1..Len(TokenOrder) : TokenOrder[i] = t

RECURSIVE StrLessEq(_, _)
StrLessEq(a, b) ==
    IF a = <<>> THEN TRUE
    ELSE IF b = <<>> THEN FALSE
    ELSE IF Head(a) = Head(b) THEN StrLessEq(Tail(a), Tail(b))
    ELSE TokenRank(Head(a)) < TokenRank(Head(b))

\* sorted(list(all_options))
RECURSIVE Sorted(_)
Sorted(S) ==
    IF S = {} THEN <<>>
    ELSE LET least == CHOOSE x \in S : \A y \in S : StrLessEq(x, y)
         IN  <<least>> \o Sorted(S \ {least})

\* all_options = set(); for _, entities in mappings: all_options.update(entities)
AllOptions(mappings) ==
    UNION {{mappings[i][2][j] : j \in 1..Len(mappings[i][2])} :
           i \in 1..Len(mappings)}

\* Variant of NeedsLoad: rehydrate only when both arguments are omitted
NeedsLoadBothMissing(responses, query) == ~responses.given /\ ~query.given

\* if responses is None or query is None:
NeedsLoad(responses, query) == ~responses.given \/ ~query.given

\* what json.dump writes to options_<model>.json
OptionsArtifact(model, query, mappings) ==
    [model |-> model, query |-> query,
     options |-> Sorted(AllOptions(mappings)), mappings |-> mappings]

process_options(d, ds, unique_id, model, responses, query, behaviour) ==
    LET made == ds \cup {unique_id}
        responses_file == Path(unique_id, get_model_filename("responses", model))
        options_file == Path(unique_id, get_model_filename("options", model))
        load == NeedsLoad(responses, query)
        file == LoadJson(d, responses_file)
    IN  IF load /\ ~file.found
        THEN Raised(d, made, "FileNotFoundError")
        ELSE LET rs == IF load THEN file.data.responses ELSE responses.val
                 q == IF load THEN file.data.query ELSE query.val
                 mappings ==
                     identify_options(rs, Completion(behaviour, Context(rs, q)))
             IN  Returned(WriteFile(d, options_file,
                                    OptionsArtifact(model, q, mappings)),
                          made, mappings, <<>>, {options_file})

\* what json.dump writes to analysis_<model>.json
AnalysisArtifact(model, shares) == [model |-> model, shares |-> shares]

analyze_shares(d, ds, unique_id, model, mappings) ==
    LET made == ds \cup {unique_id}
        options_file == Path(unique_id, get_model_filename("options", model))
        analysis_file == Path(unique_id, get_model_filename("analysis", model))
        file == LoadJson(d, options_file)
    IN  IF ~mappings.given /\ ~file.found
        THEN Raised(d, made, "FileNotFoundError")
        ELSE LET ms == IF mappings.given THEN mappings.val
                       ELSE file.data.mappings
                 shares == calculate_options_shares(ms)
             IN  Returned(WriteFile(d, analysis_file,
                                    AnalysisArtifact(model, shares)),
                          made, shares, <<>>, {analysis_file})

---------------------------------------------------------------------------
(* The orchestrator's operations called in any order *)

Sessions == {"a1b2c3"}
Models == {gpt_3_5_turbo, gpt_3_5_dashed, google_gemini}
Query1 == Str("Which language?")
Query2 == Str("Which editor?")

\* the provider's behaviour over the calls of one get_responses
OutcomeOk == Outcome(0, 1, Str("r1"), Str("none"))
OutcomeRetried == Outcome(max_tries - 1, 1, Str("r2"), Str("none"))
OutcomeFailed == Outcome(max_tries, 1, Str("none"), Str("rate limit"))
OutcomeSlow == Outcome(2, max_time \div 2, Str("r2"), Str("timeout"))
Scripts == {<<>>, <<OutcomeOk>>, <<OutcomeOk, OutcomeFailed>>, <<OutcomeRetried, OutcomeOk>>}

\* in-memory arguments a caller may pass instead of rehydrating
SuppliedResponses == {Absent, Given(<<Str("r2"), Str("r1")>>)}
SuppliedQueries == {Absent, Given(Query2)}
SuppliedMappings ==
    {Absent, Given(<< <<Str("r1"), <<LabelA, LabelB>> >>, <<Str("r2"), <<LabelA>> >> >>)}

NoCall ==
    [op |-> "none", unique_id |-> "none", model |-> <<>>, runs |-> 0,
     outcomes |-> <<>>, responses |-> Absent, query |-> Absent,
     mappings |-> Absent, raised |-> FALSE, err |-> "none", ret |-> <<>>,
     progress |-> <<>>, wrote |-> {}]

Called(op, unique_id, model, r) ==
    [NoCall EXCEPT !.op = op, !.unique_id = unique_id, !.model = model,
                   !.raised = r.raised, !.err = r.err, !.ret = r.ret,
                   !.progress = r.progress, !.wrote = r.wrote]

AppIdle ==
    [unique_id |-> "none", model |-> gpt_3_5_turbo, runs |-> 3,
     query |-> <<>>, page |-> "closed", stages |-> <<>>, message |-> <<>>,
     ranking |-> <<>>, outcomes |-> <<>>]

OrchInit ==
    /\ disk = <<>>
    /\ dirs = {}
    /\ last = NoCall
    /\ got = <<>>
    /\ inMemory = {}
    /\ calls = 0
    /\ extractor \in Extractors

Init ==
    /\ OrchInit
    /\ app = AppIdle
    /\ PipeIdle

\* get_responses with the provider behaving as one of `scripts`
GetResponsesWith(scripts) ==
    /\ \E unique_id \in Sessions, model \in Models, outcomes \in scripts :
            LET runs == Len(outcomes)
                r == get_responses(disk, dirs, unique_id, model, Query1, runs, outcomes)
                key == <<unique_id, model>>
            IN  /\ disk' = r.disk
                /\ dirs' = r.dirs
                /\ last' = [Called("get_responses", unique_id, model, r)
                               EXCEPT !.query = Given(Query1), !.runs = runs,
                                      !.outcomes = outcomes]
                /\ got' = [k \in DOMAIN got \cup {key} |->
                              IF k = key
                              THEN [responses |-> r.ret, query |-> Query1]
                              ELSE got[k]]
                /\ inMemory' = inMemory
    /\ calls' = calls + 1
    /\ UNCHANGED <<extractor, app, pipeVars>>

GetResponses ==
    /\ calls < MaxCalls
    /\ GetResponsesWith(Scripts)

ProcessOptions ==
    /\ calls < MaxCalls
    /\ \E unique_id \in Sessions, model \in Models,
          responses \in SuppliedResponses, query \in SuppliedQueries :
            LET r == process_options(disk, dirs, unique_id, model, responses,
                                     query, extractor)
            IN  /\ disk' = r.disk
                /\ dirs' = r.dirs
                /\ last' = [Called("process_options", unique_id, model, r)
                               EXCEPT !.responses = responses, !.query = query]
                /\ inMemory' = IF responses.given /\ query.given
                               THEN inMemory \cup r.wrote
                               ELSE inMemory \ r.wrote
    /\ calls' = calls + 1
    /\ UNCHANGED <<got, extractor, app, pipeVars>>

AnalyzeShares ==
    /\ calls < MaxCalls
    /\ \E unique_id \in Sessions, model \in Models, mappings \in SuppliedMappings :
            LET r == analyze_shares(disk, dirs, unique_id, model, mappings)
            IN  /\ disk' = r.disk
                /\ dirs' = r.dirs
                /\ last' = [Called("analyze_shares", unique_id, model, r)
                               EXCEPT !.mappings = mappings]
                /\ inMemory' = IF mappings.given
                               THEN inMemory \cup r.wrote
                               ELSE inMemory \ r.wrote
    /\ calls' = calls + 1
    /\ UNCHANGED <<got, extractor, app, pipeVars>>

Next ==
    \/ GetResponses
    \/ ProcessOptions
    \/ AnalyzeShares

Spec == Init /\ [][Next]_vars

(* The sampler on its own: one get_responses call, for any number of runs *)
(* and any outcome of each completion call                               *)

Outcomes == {OutcomeOk, OutcomeRetried, OutcomeFailed, OutcomeSlow}

Sample ==
    /\ calls = 0
    /\ GetResponsesWith(SeqsUpTo(Outcomes, MaxRuns))

SpecSample == Init /\ [][Sample]_vars

(* The extractor and the aggregator on their own *)

ExtractInit ==
    /\ OrchInit
    /\ extractor = "in_order"
    /\ app = AppIdle
    /\ PipeInit

ExtractNext ==
    \/ Identify /\ UNCHANGED <<orchVars, app>>
    \/ Aggregate /\ UNCHANGED <<orchVars, app>>

SpecExtract == ExtractInit /\ [][ExtractNext]_vars

---------------------------------------------------------------------------
(* Interactive surface: app.main, one Streamlit session *)

ModelChoices == <<gpt_3_5_turbo, gpt_4_mini>>
RunChoices == <<3, 10, 25, 100>>
default_query == Str("Pick your favorite letter")
QueryTexts == {default_query, <<>>, Str(" ")}

\* the provider over the `runs` calls of one press of Analyze: every call
\* answers, every call fails, or only the first one fails
AppScripts(runs) ==
    {[i \in 1..runs |-> OutcomeOk],
     [i \in 1..runs |-> OutcomeFailed],
     [i \in 1..runs |-> IF i = 1 THEN OutcomeFailed ELSE OutcomeOk]}

\* str.strip()
RECURSIVE LStrip(_)
LStrip(s) == IF s # <<>> /\ Head(s) = " " THEN LStrip(Tail(s)) ELSE s
RECURSIVE RStrip(_)
RStrip(s) ==
    IF s # <<>> /\ s[Len(s)] = " " THEN RStrip(SubSeq(s, 1, Len(s) - 1)) ELSE s
Strip(s) == RStrip(LStrip(s))

\* parameters without a default in the signatures of main.py
process_options_required == {"unique_id", "model"}
analyze_shares_required == {"unique_id", "model"}

\* keyword arguments app.main passes
process_options_kwargs(unique_id, model, responses, query) ==
    [unique_id |-> unique_id, responses |-> responses, query |-> query]
analyze_shares_kwargs(unique_id, model, mappings) ==
    [unique_id |-> unique_id, mappings |-> mappings]

\* Python binds a call: TypeError when a required parameter gets no value
MissingArguments(required, kwargs) == required \ DOMAIN kwargs

TypeErrorText(function, missing) ==
    <<function, "() missing ", Cardinality(missing), " required positional argument">>

\* sorted(shares.items(), key=lambda x: x[1], reverse=True)
ShareLess(a, b) == a.num * b.den < b.num * a.den
RECURSIVE Ranked(_, _)
Ranked(shares, remaining) ==
    IF remaining = {} THEN <<>>
    ELSE LET top == CHOOSE x \in remaining :
                        \A y \in remaining : ~ShareLess(shares[x], shares[y])
         IN  << <<top, shares[top]>> >> \o Ranked(shares, remaining \ {top})

\* the three steps inside the try block and the except clause
RunAnalysis(d, ds, unique_id, model, query, runs, outcomes, behaviour) ==
    LET r1 == get_responses(d, ds, unique_id, model, query, runs, outcomes)
        kw2 == process_options_kwargs(unique_id, model, r1.ret, query)
        miss2 == MissingArguments(process_options_required, kw2)
        failed(r, stages, text) ==
            [disk |-> r.disk, dirs |-> r.dirs, page |-> "error", stages |-> stages,
             message |-> <<"Error during analysis: ">> \o text, ranking |-> <<>>]
    IN  IF miss2 # {}
        THEN failed(r1, <<"get_responses">>, TypeErrorText("process_options", miss2))
        ELSE
        LET r2 == process_options(r1.disk, r1.dirs, kw2.unique_id, kw2.model,
                                  Given(kw2.responses), Given(kw2.query), behaviour)
            kw3 == analyze_shares_kwargs(unique_id, model, r2.ret)
            miss3 == MissingArguments(analyze_shares_required, kw3)
        IN  IF r2.raised
            THEN failed(r2, <<"get_responses">>, Str(r2.err))
            ELSE IF miss3 # {}
            THEN failed(r2, <<"get_responses", "process_options">>,
                        TypeErrorText("analyze_shares", miss3))
            ELSE
            LET r3 == analyze_shares(r2.disk, r2.dirs, kw3.unique_id, kw3.model,
                                     Given(kw3.mappings))
            IN  IF r3.raised
                THEN failed(r3, <<"get_responses", "process_options">>, Str(r3.err))
                ELSE [disk |-> r3.disk, dirs |-> r3.dirs, page |-> "results",
                      stages |-> <<"get_responses", "process_options", "analyze_shares">>,
                      message |-> Str("Analysis complete!"),
                      ranking |-> Ranked(r3.ret, DOMAIN r3.ret)]

\* a rerun of the script that is not a press of Analyze shows the bare form
Form(a) == [a EXCEPT !.page = "form", !.stages = <<>>, !.message = <<>>,
                     !.ranking = <<>>, !.outcomes = <<>>]

\* first run: st.session_state.unique_id is set, the widgets show defaults
Open ==
    /\ app.page = "closed"
    /\ \E unique_id \in Sessions :
          app' = [Form(app) EXCEPT !.unique_id = unique_id,
                                   !.model = ModelChoices[1],
                                   !.runs = RunChoices[1],
                                   !.query = default_query]
    /\ UNCHANGED <<orchVars, pipeVars>>

SelectModel ==
    /\ app.page # "closed"
    /\ \E i \in 1..Len(ModelChoices) : app' = [Form(app) EXCEPT !.model = ModelChoices[i]]
    /\ UNCHANGED <<orchVars, pipeVars>>

SelectRuns ==
    /\ app.page # "closed"
    /\ \E i \in 1..Len(RunChoices) : app' = [Form(app) EXCEPT !.runs = RunChoices[i]]
    /\ UNCHANGED <<orchVars, pipeVars>>

EditQuery ==
    /\ app.page # "closed"
    /\ \E query \in QueryTexts : app' = [Form(app) EXCEPT !.query = query]
    /\ UNCHANGED <<orchVars, pipeVars>>

\* st.button("Analyze", disabled=not query.strip()) pressed
Analyze ==
    /\ app.page # "closed"
    /\ Strip(app.query) # <<>>
    /\ \E outcomes \in AppScripts(app.runs) :
          LET r == RunAnalysis(disk, dirs, app.unique_id, app.model, app.query,
                               app.runs, outcomes, extractor)
          IN  /\ disk' = r.disk
              /\ dirs' = r.dirs
              /\ app' = [app EXCEPT !.page = r.page, !.stages = r.stages,
                                    !.message = r.message, !.ranking = r.ranking,
                                    !.outcomes = outcomes]
    /\ UNCHANGED <<last, got, inMemory, calls, extractor, pipeVars>>

AppNext ==
    \/ Open
    \/ SelectModel
    \/ SelectRuns
    \/ EditQuery
    \/ Analyze

SpecApp == Init /\ [][AppNext]_vars

---------------------------------------------------------------------------
(* Properties *)

\* the completion call gives up: every allowed attempt raised, or max_time
\* ran out after a failed attempt
Failed(outcome) ==
    \/ outcome.failures >= max_tries
    \/ \E k \in 1..outcome.failures : k * outcome.seconds >= max_time

\* C1: get_responses never raises because a completion call failed and
\* returns exactly `runs` entries: a call whose retries are exhausted leaves
\* the string "Error: <message>" in its own slot, every other slot holds
\* that call's answer, and all `runs` calls are made (one progress report
\* each).
C1_SamplerReturnsRuns ==
    last.op = "get_responses" =>
        /\ ~last.raised
        /\ Len(last.ret) = last.runs
        /\ last.progress = [i \in 1..last.runs |-> <<i, last.runs>>]
        /\ \A i \in 1..last.runs :
              last.ret[i] = IF Failed(last.outcomes[i])
                            THEN ErrorString(last.outcomes[i].error)
                            ELSE last.outcomes[i].content

\* a failed call followed by a successful one in the same batch
C1_Witness ==
    /\ last.op = "get_responses"
    /\ last.runs >= 2
    /\ \E i, j \in 1..last.runs :
          i < j /\ Failed(last.outcomes[i]) /\ ~Failed(last.outcomes[j])

Extracted == xpc \in {"identified", "shared"}

\* C2: identify_options returns a list as long as its input whose i-th text
\* is the i-th input response, whatever records the extraction model
\* returned.
C2_ExtractKeepsLengthAndOrder ==
    Extracted =>
        /\ Len(xMapping) = Len(xResponses)
        /\ \A i \in 1..Len(xResponses) : xMapping[i][1] = xResponses[i]

EntrySet(entry) == {entry[2][j] : j \in 1..Len(entry[2])}

\* C3: for a mapping of N >= 1 entries the share of a label is k / N, k the
\* number of entries whose label sequence contains it (an entry counts
\* once), and labels in no entry are absent from the result.
C3_ShareIsEntriesOverTotal ==
    (xpc = "shared" /\ Len(xMapping) >= 1) =>
        /\ DOMAIN xShares = UNION {EntrySet(xMapping[i]) : i \in 1..Len(xMapping)}
        /\ \A label \in DOMAIN xShares :
              xShares[label] =
                  Divide(Cardinality({i \in 1..Len(xMapping) :
                                          label \in EntrySet(xMapping[i])}),
                         Len(xMapping))

\* C4: every entry of a mapping returned by identify_options has at least
\* one label, on the success path and on the fallback path.
C4_EveryEntryLabelled ==
    Extracted => \A i \in 1..Len(xMapping) : Len(xMapping[i][2]) >= 1

\* the ways the structured extraction call fails: the provider raises, the
\* payload does not parse, it lacks "mappings", a record lacks a key, a
\* response_index is out of range
ExtractionFails ==
    \/ xReply.kind # "ok"
    \/ \E i \in 1..Len(xReply.records) :
          \/ ~xReply.records[i].has_entities
          \/ xReply.records[i].response_index >= Len(xResponses)
          \/ xReply.records[i].response_index < -Len(xResponses)

ExceptionTexts ==
    {ExceptionText(kind) : kind \in {"provider_error", "bad_json", "no_mappings",
                                     "no_entities", "index"}}

\* C5: when the extraction call fails, identify_options returns one pair
\* (r, ["Error: <message>"]) per input response, in input order, with one
\* message for all; the shares of that mapping, for a non-empty batch, have
\* that error label as their only key, with share 1.0.
C5_FailureFallsBackUniformly ==
    (Extracted /\ ExtractionFails) =>
        \E msg \in ExceptionTexts :
            /\ xMapping = [i \in 1..Len(xResponses) |->
                              <<xResponses[i], <<ErrorString(msg)>> >>]
            /\ (xpc = "shared" /\ Len(xResponses) >= 1) =>
                  /\ DOMAIN xShares = {ErrorString(msg)}
                  /\ xShares[ErrorString(msg)] = One

\* the reply's first record is usable and its second is out of range
C5_Witness ==
    /\ xpc = "shared"
    /\ Len(xResponses) = 2
    /\ xReply.kind = "ok"
    /\ Len(xReply.records) = 2
    /\ xReply.records[1] = Record(0, TRUE, <<LabelA>>)
    /\ xReply.records[2].has_entities
    /\ xReply.records[2].response_index = 2

ResponsesFile(unique_id, model) == Path(unique_id, get_model_filename("responses", model))
OptionsFile(unique_id, model) == Path(unique_id, get_model_filename("options", model))
AnalysisFile(unique_id, model) == Path(unique_id, get_model_filename("analysis", model))

\* the last call was process_options and it rehydrated its input
Reloaded ==
    /\ last.op = "process_options"
    /\ ~(last.responses.given /\ last.query.given)

\* C6: once get_responses(session, model, query) has persisted its
\* artifact, process_options(session, model) without in-memory input
\* returns the mapping, and persists the options artifact, that
\* process_options(session, model, responses, query) does when given what
\* get_responses returned (the extractor being one function of its prompt).
C6_ReloadReproducesMapping ==
    (/\ last.op = "process_options"
     /\ ~last.responses.given /\ ~last.query.given
     /\ <<last.unique_id, last.model>> \in DOMAIN got
     /\ ResponsesFile(last.unique_id, last.model) \in DOMAIN disk
     /\ disk[ResponsesFile(last.unique_id, last.model)].model = last.model) =>
        LET g == got[<<last.unique_id, last.model>>]
            explicit == process_options(disk, dirs, last.unique_id, last.model,
                                        Given(g.responses), Given(g.query), extractor)
            options_file == OptionsFile(last.unique_id, last.model)
        IN  /\ ~last.raised
            /\ ~explicit.raised
            /\ last.ret = explicit.ret
            /\ disk[options_file] = explicit.disk[options_file]

\* a reload of a batch of two in which one call had failed
C6_Witness ==
    /\ last.op = "process_options"
    /\ ~last.responses.given /\ ~last.query.given
    /\ ~last.raised
    /\ <<last.unique_id, last.model>> \in DOMAIN got
    /\ disk[ResponsesFile(last.unique_id, last.model)].model = last.model
    /\ Len(got[<<last.unique_id, last.model>>].responses) = 2
    /\ Len(last.ret) = 2

Sanitised == {"/", ".", "-"}
DiffersOnlyInSanitised(a, b) ==
    /\ a # b
    /\ Len(a) = Len(b)
    /\ \A i \in 1..Len(a) : a[i] # b[i] => {a[i], b[i]} \subseteq Sanitised

Bases == {"responses", "options", "analysis"}

\* C7: the filename of a model id holds no path separator, two model ids
\* that differ only in their use of '/', '.' and '-' get distinct
\* filenames, and so an artifact found under one model's filename was
\* written by an operation on that model.
C7_FilenamesSafeAndDistinct ==
    last.op # "none" =>
        /\ \A base \in Bases :
              LET name == get_model_filename(base, last.model)
              IN  \A i \in 1..Len(name) : name[i] # "/"
        /\ \A other \in Models, base \in Bases :
              DiffersOnlyInSanitised(other, last.model) =>
                  get_model_filename(base, other) # get_model_filename(base, last.model)
        /\ \A unique_id \in Sessions, model \in Models, base \in Bases :
              LET path == Path(unique_id, get_model_filename(base, model))
              IN  path \in DOMAIN disk => disk[path].model = model

\* a call that had to rehydrate an artifact that is missing raised and
\* wrote nothing
MissingInputFails ==
    /\ (Reloaded /\ ResponsesFile(last.unique_id, last.model) \notin DOMAIN disk) =>
          (last.raised /\ last.wrote = {})
    /\ (/\ last.op = "analyze_shares"
        /\ ~last.mappings.given
        /\ OptionsFile(last.unique_id, last.model) \notin DOMAIN disk) =>
          (last.raised /\ last.wrote = {})

\* C8: per (session, model) an options artifact exists only if a responses
\* artifact exists and an analysis artifact only if an options artifact
\* exists, whatever calls were made, with or without in-memory inputs; a
\* call that must rehydrate a missing artifact fails and writes nothing.
C8_ArtifactsFollowStages ==
    /\ \A unique_id \in Sessions, model \in Models :
          /\ OptionsFile(unique_id, model) \in DOMAIN disk =>
                ResponsesFile(unique_id, model) \in DOMAIN disk
          /\ AnalysisFile(unique_id, model) \in DOMAIN disk =>
                OptionsFile(unique_id, model) \in DOMAIN disk
    /\ MissingInputFails

\* C8 as amended: the order of stages holds for the artifacts written by
\* calls that rehydrated their input; an artifact last written by a call
\* given its input in memory may exist without the earlier stage's.
C8_RehydratedArtifactsFollowStages ==
    /\ \A unique_id \in Sessions, model \in Models :
          /\ (/\ OptionsFile(unique_id, model) \in DOMAIN disk
              /\ OptionsFile(unique_id, model) \notin inMemory) =>
                ResponsesFile(unique_id, model) \in DOMAIN disk
          /\ (/\ AnalysisFile(unique_id, model) \in DOMAIN disk
              /\ AnalysisFile(unique_id, model) \notin inMemory) =>
                OptionsFile(unique_id, model) \in DOMAIN disk
    /\ MissingInputFails

\* all three artifacts of one model written by rehydrating calls
C8_Witness ==
    \E unique_id \in Sessions, model \in Models :
        /\ AnalysisFile(unique_id, model) \in DOMAIN disk
        /\ AnalysisFile(unique_id, model) \notin inMemory
        /\ OptionsFile(unique_id, model) \notin inMemory
        /\ last.op = "analyze_shares"
        /\ last.model = model

\* C10: process_options extracts from the supplied responses only when
\* both responses and query are supplied; when either is omitted both come
\* from the persisted responses artifact, and the call fails when there is
\* none.
C10_BothOrPersisted ==
    last.op = "process_options" =>
        LET responses_file == ResponsesFile(last.unique_id, last.model)
            options_file == OptionsFile(last.unique_id, last.model)
            extract(rs, q) ==
                identify_options(rs, Completion(extractor, Context(rs, q)))
        IN  IF last.responses.given /\ last.query.given
            THEN /\ ~last.raised
                 /\ last.ret = extract(last.responses.val, last.query.val)
                 /\ disk[options_file].query = last.query.val
            ELSE IF responses_file \in DOMAIN disk
            THEN /\ ~last.raised
                 /\ last.ret = extract(disk[responses_file].responses,
                                       disk[responses_file].query)
                 /\ disk[options_file].query = disk[responses_file].query
            ELSE /\ last.raised
                 /\ last.err = "FileNotFoundError"

\* responses supplied, query omitted, and a different batch on disk
C10_Witness ==
    /\ last.op = "process_options"
    /\ last.responses.given
    /\ ~last.query.given
    /\ ~last.raised
    /\ disk[ResponsesFile(last.unique_id, last.model)].responses # last.responses.val
    /\ Len(last.ret) = Len(disk[ResponsesFile(last.unique_id, last.model)].responses)


\* the Analyze handler has run to its end
Analyzed == app.page \in {"error", "results"}

\* no completion call failed and the extraction call did not fail
NoProviderError ==
    /\ \A i \in 1..Len(app.outcomes) : ~Failed(app.outcomes[i])
    /\ extractor # "provider_error"

\* C9: when Analyze is pressed with a non-empty query and no provider or
\* file error occurs, the handler runs get_responses, process_options and
\* analyze_shares in that order and ends with the ranked results on the
\* page, not with "Error during analysis".
C9_AnalyzeRendersResults ==
    (Analyzed /\ NoProviderError) =>
        /\ app.page = "results"
        /\ app.stages = <<"get_responses", "process_options", "analyze_shares">>

====
